---- MODULE Spec2Model ----
(***************************************************************************)
(* Model of scripts/scil_compute_pca.py: the common-connection mask, the   *)
(* PCA input table and the unpacking of the component scores.              *)
(*                                                                         *)
(* A matrix is a sequence of rows, a row a sequence of integers.  The      *)
(* dictionary d is a sequence over the metrics (insertion order of the     *)
(* dict) of sequences over the subjects of matrices.  A numpy array that   *)
(* the code reshapes is its C-order flat sequence of values.               *)
(***************************************************************************)
EXTENDS Integers, Sequences, FiniteSets, TLC

VARIABLES pc, err, common, d, orig, mat_shape, m1, m2, applied,
          df, x, eigenvalues, transform, out, pi, ps, written, res

vars == <<pc, err, common, d, orig, mat_shape, m1, m2, applied,
          df, x, eigenvalues, transform, out, pi, ps, written, res>>

\* ---------------------------------------------------------------- bounds
MaxSubj == 2
MaxMetrics == 3
MaxRows == 2
MaxCols == 3
MaxCells == 6
MaxVal == 2
MaxEig == 1

\* ------------------------------------------------------- array helpers
NRows(mat) == Len(mat)
NCols(mat) == Len(mat[1])
Shape(mat) == <<NRows(mat), NCols(mat)>>

RECURSIVE SumSeq(_)
SumSeq(s) == IF s = <<>> THEN 0 ELSE s[1] + SumSeq(Tail(s))

\* np.sum of a matrix
MatSum(mat) == SumSeq([r \in 1..NRows(mat) |-> SumSeq(mat[r])])

\* np.add of two matrices of one shape
MatAdd(a, b) == [r \in 1..NRows(a) |-> [c \in 1..NCols(a) |-> a[r][c] + b[r][c]]]

\* numpy broadcasting of two 2-D arrays: every axis has equal lengths or a
\* length of 1, which is repeated; otherwise the operation raises ValueError
Broadcastable(a, b) ==
    /\ NRows(a) = NRows(b) \/ NRows(a) = 1 \/ NRows(b) = 1
    /\ NCols(a) = NCols(b) \/ NCols(a) = 1 \/ NCols(b) = 1

BIndex(i, n) == IF n = 1 THEN 1 ELSE i

BLen(m, n) == IF m >= n THEN m ELSE n

\* np.multiply of two broadcastable matrices (of one shape: cell by cell)
MatMul(a, b) ==
    [r \in 1..BLen(NRows(a), NRows(b)) |-> [c \in 1..BLen(NCols(a), NCols(b)) |->
        a[BIndex(r, NRows(a))][BIndex(c, NCols(a))]
            * b[BIndex(r, NRows(b))][BIndex(c, NCols(b))]]]

\* a[a != 0] = 1
Binarize(mat) == [r \in 1..NRows(mat) |-> [c \in 1..NCols(mat) |->
                    IF mat[r][c] # 0 THEN 1 ELSE 0]]

\* ------------------------------------------------ extracting_common_cnx
\* mask[i] of the code: the running sum of the first i+1 binarized matrices
RECURSIVE RunningSum(_, _)
RunningSum(met, i) ==
    IF i = 1 THEN met[1] ELSE MatAdd(RunningSum(met, i - 1), met[i])

extracting_common_cnx_any(dd, ind) ==
    LET met == [i \in 1..Len(dd[ind + 1]) |-> Binarize(dd[ind + 1][i])]
        mask_f == RunningSum(met, Len(met))
    IN  [r \in 1..NRows(mask_f) |-> [c \in 1..NCols(mask_f) |->
            IF mask_f[r][c] # 0 THEN 1 ELSE 0]]

extracting_common_cnx(dd, ind) ==
    LET met == [i \in 1..Len(dd[ind + 1]) |-> Binarize(dd[ind + 1][i])]
        n == Len(met)
        mask_f == RunningSum(met, n)
        zeroed == [r \in 1..NRows(mask_f) |-> [c \in 1..NCols(mask_f) |->
                     IF mask_f[r][c] # n THEN 0 ELSE mask_f[r][c]]]
    IN  [r \in 1..NRows(zeroed) |-> [c \in 1..NCols(zeroed) |->
            IF zeroed[r][c] = n THEN 1 ELSE zeroed[r][c]]]

\* d after the call: met is np.copy(d[keys[ind]]) (line 130), a new array, so
\* the writes of lines 134, 145 and 146 do not reach the matrices of d
d_after_extracting_nocopy(dd, ind) ==
    [a \in 1..Len(dd) |->
        IF a = ind + 1 THEN [i \in 1..Len(dd[a]) |-> Binarize(dd[a][i])]
        ELSE dd[a]]

d_after_extracting(dd, ind) ==
    [a \in 1..Len(dd) |-> [i \in 1..Len(dd[a]) |-> dd[a][i]]]

\* ---------------------------------------------------- apply_binary_mask
apply_binary_mask_skip_last(dd, mask) ==
    [a \in 1..Len(dd) |-> [i \in 1..Len(dd[a]) |->
        IF i = Len(dd[a]) /\ a = Len(dd) THEN dd[a][i] ELSE MatMul(dd[a][i], mask)]]

apply_binary_mask(dd, mask) ==
    [a \in 1..Len(dd) |-> [i \in 1..Len(dd[a]) |-> MatMul(dd[a][i], mask)]]

\* line 160 raises for the first matrix, in the order of the two loops,
\* that cannot be broadcast with the mask
mask_fails(dd, mask) ==
    \E a \in 1..Len(dd) : \E i \in 1..Len(dd[a]) : ~Broadcastable(dd[a][i], mask)

\* d when line 160 raises: the matrices before the failing one are replaced
apply_binary_mask_partial(dd, mask) ==
    [a \in 1..Len(dd) |-> [i \in 1..Len(dd[a]) |->
        IF \A b \in 1..a : \A j \in 1..Len(dd[b]) :
              (b < a \/ j <= i) => Broadcastable(dd[b][j], mask)
        THEN MatMul(dd[a][i], mask)
        ELSE dd[a][i]]]

\* --------------------------------------------------- creating_pca_input
\* np.array(d[a]): shape (S, R, C), C-order
Flat3(mats) ==
    LET S == Len(mats)  R == NRows(mats[1])  C == NCols(mats[1])
    IN  [k \in 1..(S * R * C) |->
            mats[((k - 1) \div (R * C)) + 1]
                [(((k - 1) % (R * C)) \div C) + 1]
                [((k - 1) % C) + 1]]

\* np.rollaxis(arr, axis=1, start=3) on shape (S, R, C): shape (S, C, R),
\* result[s, c, r] = arr[s, r, c]
RollAxis(flat, S, R, C) ==
    [k \in 1..(S * R * C) |->
        LET s == (k - 1) \div (C * R)
            c == ((k - 1) % (C * R)) \div R
            r == (k - 1) % R
        IN  flat[s * R * C + r * C + c + 1]]

\* the (prod(matrix_shape) * n_group, 1) column of one metric
flatten_metric(mats) ==
    LET mat == RollAxis(Flat3(mats), Len(mats), NRows(mats[1]), NCols(mats[1]))
    IN  [k \in 1..Len(mat) |-> <<mat[k]>>]

\* d after the loop of lines 83-88: every value replaced by its column
pca_columns(dd) == [a \in 1..Len(dd) |-> flatten_metric(dd[a])]

\* np.hstack of (N, 1) columns
HStack(cols) == [k \in 1..Len(cols[1]) |-> [a \in 1..Len(cols) |-> cols[a][k][1]]]

creating_pca_input_reversed(dd) ==
    LET cols == pca_columns(dd)
    IN  HStack([a \in 1..Len(cols) |-> cols[Len(cols) + 1 - a]])

creating_pca_input(dd) == HStack(pca_columns(dd))

\* np.hstack raises ValueError unless every column has the same length
hstack_fails(cols) == \E a \in 1..Len(cols) : Len(cols[a]) # Len(cols[1])

\* -------------------------------------------------- restore_zero_values
restore_zero_values_raw(o, new) == MatMul(new, o)

restore_zero_values(o, new) == MatMul(new, Binarize(o))

\* arr.swapaxes(0, 1) of an (N, M) table: shape (M, N), flattened in C order
SwapAxes(tab) ==
    LET N == Len(tab)  M == Len(tab[1])
    IN  [k \in 1..(M * N) |-> tab[((k - 1) % N) + 1][((k - 1) \div N) + 1]]

\* flat.reshape(M, S, R, C)
Reshape4(flat, M, S, R, C) ==
    [k \in 1..M |-> [s \in 1..S |-> [r \in 1..R |-> [c \in 1..C |->
        flat[(k - 1) * S * R * C + (s - 1) * R * C + (r - 1) * C + (c - 1) + 1]]]]]

\* ------------------------------------------ collaborators of the script
\* StandardScaler().fit_transform(df) followed by np.nan_to_num: the zeros
\* of df are NaN and are ignored by the fit; a NaN stays NaN and becomes 0.
\* A value v of column j becomes (v - mean_j) / scale_j; the model keeps it
\* in the integers as cnt_j * (v - mean_j) = cnt_j * v - sum_j, which has the
\* sign and the zeros of the standardized value (scale_j and cnt_j are > 0,
\* and a column of one repeated value, scale 1, becomes 0 in both).
ColSum(tab, j) == SumSeq([n \in 1..Len(tab) |-> tab[n][j]])
ColCnt(tab, j) == SumSeq([n \in 1..Len(tab) |-> IF tab[n][j] # 0 THEN 1 ELSE 0])

Standardize(tab) ==
    [n \in 1..Len(tab) |-> [j \in 1..Len(tab[1]) |->
        IF tab[n][j] = 0 THEN 0 ELSE ColCnt(tab, j) * tab[n][j] - ColSum(tab, j)]]

\* x[~np.isnan(x).any(axis=1)]: the number of rows without a NaN
NComplete(tab) ==
    SumSeq([n \in 1..Len(tab) |->
        IF \A j \in 1..Len(tab[1]) : tab[n][j] # 0 THEN 1 ELSE 0])

\* pca.transform(x) = (x - mean_) . components_^T for two decompositions:
\* the identity (components_ = I, mean_ = 0) and a dense one (every loading
\* 1, mean_ = -1), whose scores are non-zero on rows of zeros.
TransformKinds == {"identity", "dense"}

Scores(kind, tab) ==
    [n \in 1..Len(tab) |-> [k \in 1..Len(tab[1]) |->
        IF kind = "identity" THEN tab[n][k]
        ELSE SumSeq([j \in 1..Len(tab[1]) |-> tab[n][j] + 1])]]

\* len(eigenvalues[eigenvalues >= 1])
nb_pc_strict(eig) == SumSeq([i \in 1..Len(eig) |-> IF eig[i] > 1 THEN 1 ELSE 0])

nb_pc(eig) == SumSeq([i \in 1..Len(eig) |-> IF eig[i] >= 1 THEN 1 ELSE 0])

\* np.sum(m1) != np.sum(m2), negated
masks_agree_always(a, b) == TRUE

masks_agree_equal(a, b) == a = b

masks_agree(a, b) == MatSum(a) = MatSum(b)

\* ------------------------------------------------------------- inputs
None == <<>>

Dims == {sh \in (1..MaxSubj) \X (1..MaxMetrics) \X (1..MaxRows) \X (1..MaxCols) :
            sh[1] * sh[2] * sh[3] * sh[4] <= MaxCells}

\* all matrix sets of S subjects, M metrics and shape (R, C)
MatrixSets(sh) ==
    [1..sh[2] -> [1..sh[1] -> [1..sh[3] -> [1..sh[4] -> 0..MaxVal]]]]

\* subject A, subject B; metrics "fa", "md"
Scenario ==
    << << <<<<1, 0>>, <<2, 3>>>>, <<<<5, 0>>, <<6, 0>>>> >>,
       << <<<<1, 0>>, <<0, 4>>>>, <<<<1, 0>>, <<7, 0>>>> >> >>

Loaded(dd) ==
    /\ d = dd
    /\ orig = dd
    /\ mat_shape = Shape(dd[1][1])
    /\ err = "" /\ m1 = None /\ m2 = None /\ applied = None
    /\ df = None /\ x = None /\ eigenvalues = None /\ transform = ""
    /\ out = None /\ pi = 0 /\ ps = 0 /\ written = {} /\ res = None

NMetrics == Len(orig)
NSubjects == Len(orig[1])

\* ------------------------------------------------- main, lines 175-277
\* the state after line 183: every matrix loaded, mat_shape set
Init ==
    /\ pc = "loaded"
    /\ common \in BOOLEAN
    /\ \/ \E sh \in Dims : \E dd \in MatrixSets(sh) : Loaded(dd)
       \/ Loaded(Scenario)

\* lines 185-187
ExtractMasks ==
    /\ pc = "loaded" /\ common
    /\ IF Len(d) < 2
       THEN /\ m1' = extracting_common_cnx(d, 0)
            /\ d' = d_after_extracting(d, 0)
            /\ pc' = "crashed" /\ err' = "IndexError"
            /\ UNCHANGED m2
       ELSE /\ m1' = extracting_common_cnx(d, 0)
            /\ m2' = extracting_common_cnx(d_after_extracting(d, 0), 1)
            /\ d' = d_after_extracting(d_after_extracting(d, 0), 1)
            /\ pc' = "extracted"
            /\ UNCHANGED err
    /\ UNCHANGED <<common, orig, mat_shape, applied, df, x, eigenvalues,
                   transform, out, pi, ps, written, res>>

\* lines 189-196
CheckMasks ==
    /\ pc = "extracted"
    /\ IF Shape(m1) # mat_shape
       THEN pc' = "error" /\ err' = "shape"
       ELSE IF ~masks_agree(m1, m2)
            THEN pc' = "error" /\ err' = "inconsistent_mask"
            ELSE pc' = "checked" /\ UNCHANGED err
    /\ UNCHANGED <<common, d, orig, mat_shape, m1, m2, applied, df, x,
                   eigenvalues, transform, out, pi, ps, written, res>>

\* line 198
ApplyMask ==
    /\ pc = "checked"
    /\ IF mask_fails(d, m1)
       THEN /\ d' = apply_binary_mask_partial(d, m1)
            /\ pc' = "crashed" /\ err' = "ValueError"
            /\ UNCHANGED applied
       ELSE /\ d' = apply_binary_mask(d, m1)
            /\ applied' = m1
            /\ pc' = "masked"
            /\ UNCHANGED err
    /\ UNCHANGED <<common, orig, mat_shape, m1, m2, df, x, eigenvalues,
                   transform, out, pi, ps, written, res>>

\* lines 202-203; a 0 of df stands for the NaN that line 203 writes
CreateInput ==
    /\ pc = "masked" \/ (pc = "loaded" /\ ~common)
    /\ d' = pca_columns(d)
    /\ IF hstack_fails(pca_columns(d))
       THEN /\ pc' = "crashed" /\ err' = "ValueError"
            /\ UNCHANGED df
       ELSE /\ df' = creating_pca_input(d)
            /\ pc' = "input"
            /\ UNCHANGED err
    /\ UNCHANGED <<common, orig, mat_shape, m1, m2, applied, x,
                   eigenvalues, transform, out, pi, ps, written, res>>

\* lines 207-209
Scale ==
    /\ pc = "input"
    /\ x' = Standardize(df)
    /\ pc' = "scaled"
    /\ UNCHANGED <<err, common, d, orig, mat_shape, m1, m2, applied, df,
                   eigenvalues, transform, out, pi, ps, written, res>>

\* lines 213-264: the fit needs n_components <= the number of complete rows;
\* line 256 reads component[1]
Decompose ==
    /\ pc = "scaled"
    /\ IF NComplete(df) < Len(df[1])
       THEN /\ pc' = "crashed" /\ err' = "ValueError"
            /\ UNCHANGED <<eigenvalues, transform>>
       ELSE IF Len(df[1]) < 2
            THEN /\ pc' = "crashed" /\ err' = "IndexError"
                 /\ UNCHANGED <<eigenvalues, transform>>
            ELSE /\ eigenvalues' \in [1..Len(df[1]) -> 0..MaxEig]
                 /\ transform' \in TransformKinds
                 /\ pc' = "decomposed"
                 /\ UNCHANGED err
    /\ UNCHANGED <<common, d, orig, mat_shape, m1, m2, applied, df, x, out,
                   pi, ps, written, res>>

\* lines 268-270
Transform ==
    /\ pc = "decomposed"
    /\ out' = Reshape4(SwapAxes(restore_zero_values(x, Scores(transform, x))),
                       NMetrics, NSubjects, mat_shape[1], mat_shape[2])
    /\ pi' = 0 /\ ps' = 0
    /\ pc' = "saving"
    /\ UNCHANGED <<err, common, d, orig, mat_shape, m1, m2, applied, df, x,
                   eigenvalues, transform, written, res>>

\* lines 273-277: one call of save_matrix_in_any_format; a file is named by
\* its subject and its component number and holds the matrix last saved
SaveMatrix ==
    /\ pc = "saving"
    /\ pi < nb_pc(eigenvalues)
    /\ written' = {w \in written : ~(w.subject = ps + 1 /\ w.pc = pi + 1)}
                    \cup {[subject |-> ps + 1, pc |-> pi + 1, mat |-> out[pi + 1][ps + 1]]}
    /\ IF ps + 1 < NSubjects
       THEN ps' = ps + 1 /\ pi' = pi
       ELSE ps' = 0 /\ pi' = pi + 1
    /\ UNCHANGED <<pc, err, common, d, orig, mat_shape, m1, m2, applied, df,
                   x, eigenvalues, transform, out, res>>

\* line 276: save_matrix_in_any_format raises (the file cannot be written);
\* the files saved before it stay
SaveFails ==
    /\ pc = "saving"
    /\ pi < nb_pc(eigenvalues)
    /\ pc' = "crashed" /\ err' = "OSError"
    /\ UNCHANGED <<common, d, orig, mat_shape, m1, m2, applied, df, x,
                   eigenvalues, transform, out, pi, ps, written, res>>

Finish_early ==
    /\ pc = "saving"
    /\ pc' = "done"
    /\ UNCHANGED <<err, common, d, orig, mat_shape, m1, m2, applied, df, x,
                   eigenvalues, transform, out, pi, ps, written, res>>

\* line 274: the loop over the components ends
Finish ==
    /\ pc = "saving"
    /\ pi >= nb_pc(eigenvalues)
    /\ pc' = "done"
    /\ UNCHANGED <<err, common, d, orig, mat_shape, m1, m2, applied, df, x,
                   eigenvalues, transform, out, pi, ps, written, res>>

Next ==
    \/ ExtractMasks
    \/ CheckMasks
    \/ ApplyMask
    \/ CreateInput
    \/ Scale
    \/ Decompose
    \/ Transform
    \/ SaveMatrix
    \/ SaveFails
    \/ Finish

Spec == Init /\ [][Next]_vars

\* ------------------------- main, lines 175-203, metrics of unlike shapes
\* a shape for every metric; the subjects of one metric share its shape
MatShapes == (1..MaxRows) \X (1..MaxCols)

RECURSIVE CellsOf(_)
CellsOf(shs) ==
    IF shs = <<>> THEN 0 ELSE shs[1][1] * shs[1][2] + CellsOf(Tail(shs))

ShapeLists(S) ==
    {shs \in UNION {[1..M -> MatShapes] : M \in 2..MaxMetrics} :
        S * CellsOf(shs) <= MaxCells}

RECURSIVE RaggedSets(_, _)
RaggedSets(S, shs) ==
    IF shs = <<>> THEN {<<>>}
    ELSE {<<mats>> \o rest :
            mats \in [1..S -> [1..shs[1][1] -> [1..shs[1][2] -> 0..MaxVal]]],
            rest \in RaggedSets(S, Tail(shs))}

InitShape ==
    /\ pc = "loaded"
    /\ common \in BOOLEAN
    /\ \E S \in 1..MaxSubj : \E shs \in ShapeLists(S) :
          \E dd \in RaggedSets(S, shs) : Loaded(dd)

NextShape ==
    \/ ExtractMasks
    \/ CheckMasks
    \/ ApplyMask
    \/ CreateInput

SpecShape == InitShape /\ [][NextShape]_vars

\* --------------------------------------------- main, lines 165-173
\* the attributes of args: the dest of every argument of _build_arg_parser
\* (lines 57-72; add_verbose_arg and add_overwrite_arg add verbose, overwrite)
ArgDests == {"in_folder", "output", "metrics", "ids", "common",
             "verbose", "overwrite"}

\* the state at line 165: orig holds the matrices of the store, args.common
\* is chosen, nothing is loaded
InitMain ==
    /\ pc = "start"
    /\ common \in BOOLEAN
    /\ \E sh \in Dims : \E dd \in MatrixSets(sh) : orig = dd
    /\ d = None /\ mat_shape = None
    /\ err = "" /\ m1 = None /\ m2 = None /\ applied = None
    /\ df = None /\ x = None /\ eigenvalues = None /\ transform = ""
    /\ out = None /\ pi = 0 /\ ps = 0 /\ written = {} /\ res = None

\* lines 166-170
ParseArgs ==
    /\ pc = "start"
    /\ pc' = "parsed"
    /\ UNCHANGED <<err, common, d, orig, mat_shape, m1, m2, applied, df, x,
                   eigenvalues, transform, out, pi, ps, written, res>>

\* lines 172-173: line 172 reads args.input; lines 175-183 follow only if
\* the attribute exists
AssertInputsExist ==
    /\ pc = "parsed"
    /\ IF "input" \in ArgDests
       THEN pc' = "validated" /\ UNCHANGED err
       ELSE pc' = "crashed" /\ err' = "AttributeError"
    /\ UNCHANGED <<common, d, orig, mat_shape, m1, m2, applied, df, x,
                   eigenvalues, transform, out, pi, ps, written, res>>

NextMain ==
    \/ ParseArgs
    \/ AssertInputsExist

SpecMain == InitMain /\ [][NextMain]_vars

\* ------------------------------------- the functions, called on their own
\* extracting_common_cnx(d, ind), apply_binary_mask(d, mask),
\* creating_pca_input(d) and the way back of lines 268-270 under the
\* identity decomposition, each applied to any matrix set.
Masks == [1..mat_shape[1] -> [1..mat_shape[2] -> {0, 1}]]

InitFn ==
    /\ pc = "fn"
    /\ common = FALSE
    /\ \E sh \in Dims : \E dd \in MatrixSets(sh) : Loaded(dd)

\* lines 121-148
FnExtract ==
    /\ pc = "fn"
    /\ \E ind \in 0..(Len(d) - 1) :
          /\ res' = [ind |-> ind, mask |-> extracting_common_cnx(d, ind)]
          /\ d' = d_after_extracting(d, ind)
    /\ pc' = "fn_extracted"
    /\ UNCHANGED <<err, common, orig, mat_shape, m1, m2, applied, df, x,
                   eigenvalues, transform, out, pi, ps, written>>

\* lines 151-162
FnApplyMask ==
    /\ pc = "fn"
    /\ \E mask \in Masks :
          /\ d' = apply_binary_mask(d, mask)
          /\ applied' = mask
    /\ pc' = "fn_masked"
    /\ UNCHANGED <<err, common, orig, mat_shape, m1, m2, df, x, eigenvalues,
                   transform, out, pi, ps, written, res>>

\* lines 77-92
FnCreateInput ==
    /\ pc = "fn"
    /\ df' = creating_pca_input(d)
    /\ d' = pca_columns(d)
    /\ pc' = "fn_table"
    /\ UNCHANGED <<err, common, orig, mat_shape, m1, m2, applied, x,
                   eigenvalues, transform, out, pi, ps, written, res>>

\* lines 268-270 with pca.transform the identity and x the table itself
FnUnpack ==
    /\ pc = "fn_table"
    /\ out' = Reshape4(SwapAxes(restore_zero_values(df, Scores("identity", df))),
                       NMetrics, NSubjects, mat_shape[1], mat_shape[2])
    /\ pc' = "fn_unpacked"
    /\ UNCHANGED <<err, common, d, orig, mat_shape, m1, m2, applied, df, x,
                   eigenvalues, transform, pi, ps, written, res>>

\* lines 95-105: orig the first matrix of the set, new any matrix of the set
FnRestore ==
    /\ pc = "fn"
    /\ \E a \in 1..Len(d), s \in 1..Len(d[1]) :
          res' = [orig |-> d[1][1], new |-> d[a][s],
                  once |-> restore_zero_values(d[1][1], d[a][s])]
    /\ pc' = "fn_restored"
    /\ UNCHANGED <<err, common, d, orig, mat_shape, m1, m2, applied, df, x,
                   eigenvalues, transform, out, pi, ps, written>>

\* lines 95-105, called on its own result
FnRestoreAgain ==
    /\ pc = "fn_restored"
    /\ res' = [orig |-> res.orig, new |-> res.new, once |-> res.once,
               twice |-> restore_zero_values(res.orig, res.once)]
    /\ pc' = "fn_restored_twice"
    /\ UNCHANGED <<err, common, d, orig, mat_shape, m1, m2, applied, df, x,
                   eigenvalues, transform, out, pi, ps, written>>

NextFn ==
    \/ FnExtract
    \/ FnApplyMask
    \/ FnCreateInput
    \/ FnUnpack
    \/ FnRestore
    \/ FnRestoreAgain

SpecFn == InitFn /\ [][NextFn]_vars

\* ------------------------------------------------------------- claims
Rows == 1..mat_shape[1]
Cols == 1..mat_shape[2]

\* cell (r, c) is non-zero for every subject of metric a of the loaded set
CommonCell(a, r, c) == \A s \in 1..NSubjects : orig[a][s][r][c] # 0

\* C1: the mask extracted from the metric at index ind has the shape of the
\* matrices, holds only 0 and 1, and holds 1 exactly at the cells that are
\* non-zero for every subject of that metric.
C1_CommonMask ==
    pc = "fn_extracted" =>
        /\ Shape(res.mask) = mat_shape
        /\ \A r \in Rows : Len(res.mask[r]) = mat_shape[2]
        /\ \A r \in Rows, c \in Cols :
              /\ res.mask[r][c] \in {0, 1}
              /\ res.mask[r][c] = 1 <=> CommonCell(res.ind + 1, r, c)

C1_Witness ==
    /\ pc = "fn_extracted"
    /\ NSubjects = 2
    /\ \E r \in Rows, c \in Cols : res.mask[r][c] = 1
    /\ \E r \in Rows, c \in Cols :
          /\ res.mask[r][c] = 0
          /\ orig[res.ind + 1][1][r][c] # 0
          /\ orig[res.ind + 1][2][r][c] = 0

\* C10: apply_binary_mask(d, mask) leaves every matrix of every metric and
\* subject equal to the elementwise product of its previous value and the
\* mask, and keeps the metrics, the subjects and the shapes.
C10_MaskedProduct ==
    pc = "fn_masked" =>
        /\ Len(d) = Len(orig)
        /\ \A a \in 1..Len(orig) :
              /\ Len(d[a]) = Len(orig[a])
              /\ \A s \in 1..Len(orig[a]) :
                    /\ Shape(d[a][s]) = Shape(orig[a][s])
                    /\ \A r \in Rows, c \in Cols :
                          /\ d[a][s][r][c] = orig[a][s][r][c] * applied[r][c]
                          /\ applied[r][c] = 0 => d[a][s][r][c] = 0
                          /\ applied[r][c] = 1 => d[a][s][r][c] = orig[a][s][r][c]

C10_Witness ==
    /\ pc = "fn_masked"
    /\ NMetrics * NSubjects >= 2
    /\ \E r \in Rows, c \in Cols :
          applied[r][c] = 0 /\ orig[NMetrics][NSubjects][r][c] # 0
    /\ \E r \in Rows, c \in Cols :
          applied[r][c] = 1 /\ orig[NMetrics][NSubjects][r][c] # 0

\* the row of the table that holds cell (r, c) of subject s: subjects in
\* order, and within a subject the cells column by column
RowOf(s, r, c) ==
    (s - 1) * mat_shape[1] * mat_shape[2] + (c - 1) * mat_shape[1] + r

\* C9: the table has R*C*S rows and M columns, column j holds the j-th
\* metric, and the M entries of a row are the values of one subject at one
\* cell; every (subject, cell) has its own row.
C9_FeatureTable ==
    pc = "fn_table" =>
        /\ Len(df) = mat_shape[1] * mat_shape[2] * NSubjects
        /\ \A n \in 1..Len(df) : Len(df[n]) = NMetrics
        /\ \A s \in 1..NSubjects, r \in Rows, c \in Cols :
              /\ RowOf(s, r, c) \in 1..Len(df)
              /\ \A j \in 1..NMetrics : df[RowOf(s, r, c)][j] = orig[j][s][r][c]
        /\ \A s1, s2 \in 1..NSubjects, r1, r2 \in Rows, c1, c2 \in Cols :
              RowOf(s1, r1, c1) = RowOf(s2, r2, c2) => <<s1, r1, c1>> = <<s2, r2, c2>>

C9_Witness ==
    /\ pc = "fn_table"
    /\ NMetrics = 2 /\ NSubjects = 1 /\ mat_shape = <<1, 3>>
    /\ orig[1][1] = <<<<1, 2, 0>>>>
    /\ orig[2][1] = <<<<2, 0, 1>>>>
    /\ df = <<<<1, 2>>, <<2, 0>>, <<0, 1>>>>

\* C5: flattening, the identity decomposition, restoring the zeros and
\* reshaping give back, for every metric, subject and cell, the value the
\* metric had for that subject at that same cell.
C5_RoundTrip ==
    pc = "fn_unpacked" =>
        \A k \in 1..NMetrics, s \in 1..NSubjects, r \in Rows, c \in Cols :
            out[k][s][r][c] = orig[k][s][r][c]

\* the number of cells that are non-zero for every subject of metric a
CommonCount(a) ==
    Cardinality({rc \in Rows \X Cols : CommonCell(a, rc[1], rc[2])})

\* the cells that are non-zero for every subject of metric 0 and of metric 1
IntersectMask ==
    [r \in Rows |-> [c \in Cols |->
        IF CommonCell(1, r, c) /\ CommonCell(2, r, c) THEN 1 ELSE 0]]

AllZero(mat) == \A r \in 1..NRows(mat), c \in 1..NCols(mat) : mat[r][c] = 0

BeforeCheck == pc \in {"loaded", "extracted"}

\* C2: in common mode the mask applied is the intersection of the common
\* cells of metric 0 and of metric 1; in the scenario of the specification
\* the mask [[1,0],[0,0]] is applied and only cell (0,0) stays non-zero.
C2_CommonIntersection ==
    /\ (common /\ applied # None) => applied = IntersectMask
    /\ (common /\ orig = Scenario /\ ~BeforeCheck /\ pc # "checked") =>
          /\ applied = <<<<1, 0>>, <<0, 0>>>>
          /\ pc = "masked" =>
                \A a \in 1..2, s \in 1..2, r \in 1..2, c \in 1..2 :
                    <<r, c>> # <<1, 1>> => d[a][s][r][c] = 0

\* C3: in common mode, masks of metric 0 and metric 1 that retain different
\* numbers of cells end the run with the inconsistent-mask error: no mask is
\* applied, no table is built and nothing is written.
C3_InconsistentMaskFails ==
    (common /\ NMetrics >= 2 /\ CommonCount(1) # CommonCount(2)) =>
        /\ pc \in {"loaded", "extracted", "error"}
        /\ pc = "error" => err = "inconsistent_mask"
        /\ pc = "extracted" => ENABLED CheckMasks
        /\ applied = None
        /\ d = orig
        /\ df = None
        /\ out = None
        /\ written = {}

C3_Witness ==
    /\ pc = "error" /\ err = "inconsistent_mask"
    /\ CommonCount(1) > 0 /\ CommonCount(2) > 0

\* C4 as stated: masks of metric 0 and metric 1 that are not the same matrix
\* end the common-mask step with the error.
C4_DifferentMasksFail ==
    (common /\ NMetrics >= 2 /\ ~BeforeCheck
        /\ \E r \in Rows, c \in Cols : CommonCell(1, r, c) # CommonCell(2, r, c))
    => pc = "error"

\* C4 amended: the common-mask step ends with the inconsistent-mask error
\* exactly when the two masks retain different numbers of cells; masks that
\* differ as matrices and retain the same number of cells pass the check.
C4_DifferentCountsFail ==
    (common /\ NMetrics >= 2 /\ ~BeforeCheck) =>
        ((pc = "error" /\ err = "inconsistent_mask")
            <=> CommonCount(1) # CommonCount(2))

C4_Witness ==
    /\ applied # None /\ common
    /\ CommonCount(1) = CommonCount(2)
    /\ \E r \in Rows, c \in Cols : CommonCell(1, r, c) /\ ~CommonCell(2, r, c)

\* C6: a written component matrix has the input shape and is zero at every
\* cell at which a metric of its subject was zero in the loaded data.
C6_ZeroRestored ==
    \A w \in written :
        /\ Shape(w.mat) = mat_shape
        /\ \A r \in Rows, c \in Cols :
              (\E j \in 1..NMetrics : orig[j][w.subject][r][c] = 0)
                  => w.mat[r][c] = 0

Significant(i) == eigenvalues[i] >= 1

WrittenPC(i, s) == \E w \in written : w.pc = i /\ w.subject = s

Descending(eig) == \A i \in 1..(Len(eig) - 1) : eig[i] >= eig[i + 1]

C8_AnyMetricAllZero ==
    (common /\ applied # None
        /\ \E a \in 1..NMetrics, s \in 1..NSubjects : AllZero(orig[a][s]))
    => AllZero(applied)

\* C8 amended: a reference metric (position 0 or 1) with an all-zero matrix
\* for one subject makes every mask that is applied all-zero.
C8_ReferenceMetricAllZero ==
    (common /\ applied # None
        /\ \E a \in 1..2, s \in 1..NSubjects : AllZero(orig[a][s]))
    => AllZero(applied)

C8_Witness ==
    /\ common /\ applied # None
    /\ NSubjects = 2
    /\ \E s \in 1..2 : AllZero(orig[2][s])
    /\ \E s \in 1..2 : ~AllZero(orig[2][s])
    /\ \E s \in 1..2 : ~AllZero(orig[1][s])

\* C11: restoring the zeros of original a second time changes nothing, and
\* the first restore keeps new where original is non-zero and is 0 elsewhere.
C11_RestoreIdempotent ==
    /\ pc \in {"fn_restored", "fn_restored_twice"} =>
          \A r \in Rows, c \in Cols :
              res.once[r][c] = IF res.orig[r][c] = 0 THEN 0 ELSE res.new[r][c]
    /\ pc = "fn_restored_twice" => res.twice = res.once

C11_Witness ==
    /\ pc = "fn_restored_twice"
    /\ \E r \in Rows, c \in Cols : res.orig[r][c] = 0 /\ res.new[r][c] # 0
    /\ \E r \in Rows, c \in Cols : res.orig[r][c] = 2 /\ res.new[r][c] = 1
    /\ res.twice # res.new

Terminated == pc \in {"done", "error", "crashed"}

\* the files of a complete output: PC1..PCn of every subject, n the number
\* of eigenvalues >= 1
RetainedCount == Cardinality({i \in 1..NMetrics : eigenvalues[i] >= 1})

WrittenNames == {<<w.pc, w.subject>> : w \in written}

AllWritten == WrittenNames = (1..RetainedCount) \X (1..NSubjects)

\* C12 as stated: a run that has ended has written every component matrix
\* or none.
C12_AllOrNothing ==
    Terminated => (written = {} \/ AllWritten)

\* C12 amended: a run that ends in a failure of a step before the store
\* loop has written nothing, a run that ends normally has written every
\* component matrix, and a run that ends in a failing save has written
\* exactly the files that the loop saved before it.
C12_AllOrNothingUnlessSaveFails ==
    /\ (pc \in {"error", "crashed"} /\ err # "OSError") => written = {}
    /\ pc = "done" => AllWritten
    /\ (pc = "crashed" /\ err = "OSError") =>
          /\ WrittenNames =
                {n \in (1..NMetrics) \X (1..NSubjects) :
                    (n[1] - 1) * NSubjects + n[2] <= pi * NSubjects + ps}
          /\ ~AllWritten

C12_Witness ==
    /\ pc = "crashed" /\ err = "OSError"
    /\ written # {}

ValidInput ==
    /\ NMetrics >= 2
    /\ common =>
          LET cells == (1..NRows(orig[1][1])) \X (1..NCols(orig[1][1]))
              cnt(a) == Cardinality({rc \in cells : CommonCell(a, rc[1], rc[2])})
          IN  cnt(1) = cnt(2)

\* C14: a run of main on valid inputs does not fail before the store step.
C14_ValidRunReachesStore ==
    ValidInput => pc \notin {"crashed", "error"}

\* a matrix of the loaded set whose shape is not mat_shape
ShapeMismatch ==
    \E a \in 1..NMetrics : \E s \in 1..Len(orig[a]) : Shape(orig[a][s]) # mat_shape

\* C13: with a shape mismatch among the loaded matrices (and so between the
\* mask and a matrix it meets) no mask is applied and no table is built.
C13_MismatchIsFatal ==
    ShapeMismatch =>
        /\ applied = None
        /\ df = None
        /\ pc \notin {"masked", "input"}

====
